---- MODULE Spec2Model ----
(***************************************************************************)
(* Model of the Ansible modules digital_ocean_volume,                      *)
(* digital_ocean_project_facts, meraki_nat and                             *)
(* meraki_wireless_health_facts and of the template lookup plugin.  Init   *)
(* draws the program and its task parameters, every action is one step of  *)
(* main()/core() or one run() of the lookup, and the provider's answers    *)
(* (HTTP status, listed resources) are drawn when the request is made.     *)
(***************************************************************************)
EXTENDS Integers, Sequences, FiniteSets, TLC

VARIABLES prog, params, pc, vid, sid, did, pid, requests, response, reports, lookup,
          org_id, net_id, result,
          replies, msg, provider, run, updated,
          env, calls, lastCall

vars == <<prog, params, pc, vid, sid, did, pid, requests, response, reports, lookup,
          org_id, net_id, result, replies, msg, provider, run, updated,
          env, calls, lastCall>>

\* the templar of the template lookup
tvars == <<env, calls, lastCall>>

\* repeated runs of a task
rvars == <<run, updated>>

\* what the DigitalOcean modules never touch: the meraki request log, failure
\* message and provider, and the templar
extra == <<replies, msg, provider, rvars, tvars>>

(***************************************************************************)
(* Bounds                                                                  *)
(***************************************************************************)
\* longest list of volumes / snapshots / droplets / projects the provider returns
MaxList == 2
\* longest 'subset' list of a meraki_nat query task
MaxSubset == 2
\* longest list of terms of one template lookup
MaxTerms == 2
\* number of lookups made with the same templar
MaxCalls == 2
\* number of times the same meraki_nat task is run
MaxRuns == 2

(***************************************************************************)
(* Python values: None, booleans, strings and ints are kept apart, because *)
(* the code tells them apart (is None, is not True, truthiness, format).   *)
(***************************************************************************)
None == [t |-> "none", v |-> ""]
False == [t |-> "bool", v |-> "False"]
True == [t |-> "bool", v |-> "True"]
Missing == [t |-> "missing", v |-> ""]
Str(s) == [t |-> "str", v |-> s]
PyInt(n) == [t |-> "int", v |-> ToString(n)]

\* bool(x)
Truthy(x) ==
    CASE x.t = "none" -> FALSE
      [] x.t = "bool" -> x.v = "True"
      [] x.t = "str" -> x.v # ""
      [] x.t = "int" -> x.v # "0"
      [] OTHER -> FALSE

\* '{0}'.format(x)
Format(x) == IF x.t = "none" THEN "None" ELSE x.v

IsStr(x) == x.t = "str"

(***************************************************************************)
(* What the provider may answer                                            *)
(***************************************************************************)
Names == {"a", "b"}

\* the i-th listed resource has the provider-assigned id ToString(i)
Resource(n, i) == [name |-> Str(n), id |-> Str(ToString(i))]

Lists ==
    UNION {{[i \in 1..k |-> Resource(ns[i], i)] : ns \in [1..k -> Names]} : k \in 0..MaxList}

ListStatuses == {200, 404}
ActionStatuses == {202, 404}
CreateStatuses == {201, 409, 422}
DeleteStatuses == {204, 404}

Request(method, url, data) == [method |-> method, url |-> url, data |-> data]

NoLookup == [fn |-> "", name |-> None, list |-> <<>>, result |-> None]

(***************************************************************************)
(* Reporting to the host: exit_json / fail_json write one result and raise *)
(* SystemExit; main() catches Exception only.                              *)
(***************************************************************************)
exit_json(rep, changed) == Append(rep, [kind |-> "exit", changed |-> changed])

fail_json(rep) == Append(rep, [kind |-> "fail", changed |-> FALSE])

main_except_swallow(rep, exc) == rep

\* try: core(module) / except Exception as e: module.fail_json(...)
main_except(rep, exc) == IF exc = "Exception" THEN fail_json(rep) ELSE rep

\* core() left through exit_json
Exits(changed) ==
    /\ reports' = main_except(exit_json(reports, changed), "SystemExit")
    /\ pc' = "done"

\* core() left through fail_json
Fails ==
    /\ reports' = main_except(fail_json(reports), "SystemExit")
    /\ pc' = "done"

\* core() left through an exception (TypeError, KeyError, AttributeError)
Raises ==
    /\ reports' = main_except(reports, "Exception")
    /\ pc' = "done"

(***************************************************************************)
(* Name resolution                                                         *)
(***************************************************************************)
RECURSIVE get_vid_from(_, _, _)
get_vid_from(name, volumes, i) ==
    IF i > Len(volumes) THEN False
    ELSE IF volumes[i].name = name THEN volumes[i].id
    ELSE get_vid_from(name, volumes, i + 1)

RECURSIVE get_vid_last(_, _, _)
get_vid_last(name, volumes, i) ==
    IF i < 1 THEN False
    ELSE IF volumes[i].name = name THEN volumes[i].id
    ELSE get_vid_last(name, volumes, i - 1)

get_vid_lastmatch(name, volumes) == get_vid_last(name, volumes, Len(volumes))

get_vid(name, volumes) == get_vid_from(name, volumes, 1)

RECURSIVE get_pid_from(_, _, _)
get_pid_from(name, projects, i) ==
    IF i > Len(projects) THEN False
    ELSE IF projects[i].name = name THEN projects[i].id
    ELSE get_pid_from(name, projects, i + 1)

get_pid(name, projects) == get_pid_from(name, projects, 1)

\* the loop body returns in its first iteration; an empty list falls off the
\* end of the function, which returns None
RECURSIVE get_sid_from(_, _, _)
get_sid_from(name, snaps, i) ==
    IF i > Len(snaps) THEN None
    ELSE IF name = snaps[i].name THEN snaps[i].id
    ELSE False

get_sid_scanall(name, snaps) ==
    IF snaps = <<>> THEN None ELSE get_vid_from(name, snaps, 1)

get_sid(name, snaps) == get_sid_from(name, snaps, 1)

RECURSIVE get_did_from(_, _, _)
get_did_from(name, droplets, i) ==
    IF i > Len(droplets) THEN None
    ELSE IF name = droplets[i].name THEN droplets[i].id
    ELSE False

get_did(name, droplets) == get_did_from(name, droplets, 1)

Looked(fn, name, list, res) == [fn |-> fn, name |-> name, list |-> list, result |-> res]

(***************************************************************************)
(* Task parameters                                                         *)
(***************************************************************************)
VolumeParams ==
    [name : {None, Str(""), Str("a")},
     id : {None, Str("7")},
     snapshot_id : {None, Str("8")},
     droplet_id : {None, Str("9")},
     droplet_name : {None, Str("a")},
     snapshot : {None, True, False},
     state : {Str("present"), Str("absent")},
     resize_gigabytes : {None, PyInt(0), PyInt(2)},
     region : {None, Str("nyc1")},
     filesystem_label : {None, Str("lbl")},
     size_gigabytes : {PyInt(1)},
     description : {None},
     filesystem_type : {Str("ext4")}]

\* digital_ocean_project_facts declares name, default, id and resources;
\* 'state' is there only if the shared argument spec supplies it
ProjectParams ==
    [name : {None, Str("a")},
     id : {None, Str("7")},
     default : {None, True, False},
     resources : {None, True, False},
     state : {Missing, Str("present")}]

\* a rule as the task gives it: snake_case keys
TaskRule == {<<"name", "web">>, <<"lan_ip", "10.0.0.1">>, <<"public_port", "10">>}

NotGiven == [given |-> FALSE, rules |-> <<>>]
Given(rules) == [given |-> TRUE, rules |-> rules]
RuleParams == {NotGiven, Given(<<TaskRule>>)}

Subsets == {"1:1", "1:many", "all", "port_forwarding"}
SubsetLists == UNION {[1..k -> Subsets] : k \in 1..MaxSubset}

\* a query task names subsets and no rules; a present task names rules and
\* leaves subset at its default
NatParams ==
    [state : {Str("query")},
     net_name : {None, Str("net")},
     net_id : {None, Str("N1")},
     org_id : {None, Str("O1")},
     org_name : {Str("org")},
     subset : SubsetLists,
     one_to_one : {NotGiven},
     one_to_many : {NotGiven},
     port_forwarding : {NotGiven}]
    \cup
    [state : {Str("present")},
     net_name : {None, Str("net")},
     net_id : {None, Str("N1")},
     org_id : {None, Str("O1")},
     org_name : {Str("org")},
     subset : {<<"all">>},
     one_to_one : RuleParams,
     one_to_many : RuleParams,
     port_forwarding : RuleParams]

\* MerakiModule starts with result = dict(changed=False)
InitResult == [changed |-> FALSE, hasData |-> FALSE, data |-> {}]

(***************************************************************************)
(* template lookup: LookupModule.run()                                     *)
(***************************************************************************)
ExistingFiles == {"a.j2", "b.j2"}

TermNames == ExistingFiles \cup {"missing.j2"}

TermLists == UNION {[1..k -> TermNames] : k \in 0..MaxTerms}

\* the template text of a file, as tokens
FileData(file) ==
    IF file = "a.j2" THEN <<"hello", "{{", "x", "}}">>
    ELSE <<"[%", "x", "%]", "and", "{{", "x", "}}">>

\* templar.template(): a print statement between the environment's
\* delimiters is replaced by the value of its variable
RECURSIVE TemplateFrom(_, _, _, _, _)
TemplateFrom(data, i, start, end, out) ==
    IF i > Len(data) THEN out
    ELSE IF data[i] = start /\ i + 2 <= Len(data) /\ data[i + 2] = end
         THEN TemplateFrom(data, i + 3, start, end, Append(out, "value"))
         ELSE TemplateFrom(data, i + 1, start, end, Append(out, data[i]))

Template(data, environment) ==
    TemplateFrom(data, 1, environment.variable_start_string,
                 environment.variable_end_string, <<>>)

\* if variable_start_string is not None: environment.variable_start_string = ...
\* if variable_end_string is not None: environment.variable_end_string = ...
SetDelimiters(environment, kw_start, kw_end) ==
    [variable_start_string |-> IF kw_start # None THEN kw_start.v
                               ELSE environment.variable_start_string,
     variable_end_string |-> IF kw_end # None THEN kw_end.v
                             ELSE environment.variable_end_string]

OnMissing_skip(acc, term) == acc

\* raise AnsibleError("the template file %s could not be found ..." % term)
OnMissing(acc, term) == [acc EXCEPT !.raised = TRUE, !.error = term, !.ret = <<>>]

\* for term in terms: ...
RECURSIVE RunTerms(_, _, _, _, _)
RunTerms(terms, i, kw_start, kw_end, acc) ==
    IF i > Len(terms) THEN acc
    ELSE IF terms[i] \in ExistingFiles
    THEN LET environment == SetDelimiters(acc.env, kw_start, kw_end)
             res == Template(FileData(terms[i]), environment)
         IN RunTerms(terms, i + 1, kw_start, kw_end,
                     [acc EXCEPT !.env = environment,
                                 !.read = Append(@, terms[i]),
                                 !.rendered = Append(@, [term |-> terms[i],
                                                         environment |-> environment,
                                                         res |-> res]),
                                 !.ret = Append(@, res)])
    ELSE LET missing == OnMissing(acc, terms[i])
         IN IF missing.raised THEN missing
            ELSE RunTerms(terms, i + 1, kw_start, kw_end, missing)

\* one lookup('template', terms..., variable_start_string=..., variable_end_string=...)
T_Run ==
    /\ prog = "template" /\ pc = "t_ready"
    /\ calls < MaxCalls
    /\ \E terms \in TermLists, kw_start \in {None, Str("[%")}, kw_end \in {None, Str("%]")} :
         LET out == RunTerms(terms, 1, kw_start, kw_end,
                             [env |-> env, read |-> <<>>, rendered |-> <<>>, ret |-> <<>>,
                              raised |-> FALSE, error |-> ""])
         IN /\ env' = out.env
            /\ lastCall' = [kw_start |-> kw_start, kw_end |-> kw_end, terms |-> terms,
                            read |-> out.read, rendered |-> out.rendered, ret |-> out.ret,
                            raised |-> out.raised, error |-> out.error]
    /\ calls' = calls + 1
    /\ UNCHANGED <<replies, msg, provider, rvars, prog, params, pc, vid, sid, did, pid,
                   requests, response, reports, lookup, org_id, net_id, result>>

Endpoints == {"oneToOneNatRules", "oneToManyNatRules", "portForwardingRules"}

NoProvider == [e \in Endpoints |-> <<>>]

\* jinja2 environment of a fresh templar
DefaultEnv == [variable_start_string |-> "{{", variable_end_string |-> "}}"]

NoCall == [kw_start |-> None, kw_end |-> None, terms |-> <<>>, read |-> <<>>,
           rendered |-> <<>>, ret |-> <<>>, raised |-> FALSE, error |-> ""]

(***************************************************************************)
(* digital_ocean_volume: core()                                            *)
(***************************************************************************)
Send(method, url, data) == requests' = Append(requests, Request(method, url, data))

\* name, vid, sid, did = module.params[...]
V_Start ==
    /\ prog = "volume" /\ pc = "v_start"
    /\ vid' = params.id
    /\ sid' = params.snapshot_id
    /\ did' = params.droplet_id
    /\ pc' = "v_vid"
    /\ UNCHANGED <<extra, prog, params, pid, requests, response, reports, lookup, org_id, net_id, result>>

\* if name: vid = get_vid(name, get_all_volumes(rest)['volumes'])
V_ResolveVid ==
    /\ prog = "volume" /\ pc = "v_vid"
    /\ IF Truthy(params.name)
       THEN \E status \in ListStatuses, volumes \in Lists :
              /\ Send("GET", <<"volumes">>, {})
              /\ response' = status
              /\ IF status = 200
                 THEN /\ vid' = get_vid(params.name, volumes)
                      /\ lookup' = Looked("get_vid", params.name, volumes, vid')
                      /\ pc' = "v_sid"
                      /\ UNCHANGED reports
                 ELSE \* get_all_volumes returned None: None['volumes']
                      /\ Raises
                      /\ UNCHANGED <<vid, lookup>>
       ELSE /\ pc' = "v_sid"
            /\ UNCHANGED <<vid, lookup, requests, response, reports>>
    /\ UNCHANGED <<extra, prog, params, sid, did, pid, org_id, net_id, result>>

\* if module.params['snapshot']: if sid is None and name is not None: sid = get_sid(...)
V_ResolveSid ==
    /\ prog = "volume" /\ pc = "v_sid"
    /\ IF Truthy(params.snapshot) /\ sid = None /\ params.name # None
       THEN \E status \in ListStatuses, snaps \in Lists :
              /\ Send("GET", <<"volumes", Format(vid), "snapshots">>, {})
              /\ response' = status
              /\ IF status = 200
                 THEN /\ sid' = get_sid(params.name, snaps)
                      /\ lookup' = Looked("get_sid", params.name, snaps, sid')
                      /\ pc' = "v_did"
                      /\ UNCHANGED reports
                 ELSE \* get_snaps returned None: None['snapshots']
                      /\ Raises
                      /\ UNCHANGED <<sid, lookup>>
       ELSE /\ pc' = "v_did"
            /\ UNCHANGED <<sid, lookup, requests, response, reports>>
    /\ UNCHANGED <<extra, prog, params, vid, did, pid, org_id, net_id, result>>

\* if module.params['droplet_name']: did = get_did(droplet_name, get_droplets(rest))
\* get_paginated_data either returns the list or reports the failure itself
V_ResolveDid ==
    /\ prog = "volume" /\ pc = "v_did"
    /\ IF Truthy(params.droplet_name)
       THEN \E status \in ListStatuses, droplets \in Lists :
              /\ Send("GET", <<"droplets?">>, {})
              /\ response' = status
              /\ IF status = 200
                 THEN /\ did' = get_did(params.droplet_name, droplets)
                      /\ lookup' = Looked("get_did", params.droplet_name, droplets, did')
                      /\ pc' = "v_act"
                      /\ UNCHANGED reports
                 ELSE /\ Fails
                      /\ UNCHANGED <<did, lookup>>
       ELSE /\ pc' = "v_act"
            /\ UNCHANGED <<did, lookup, requests, response, reports>>
    /\ UNCHANGED <<extra, prog, params, vid, sid, pid, org_id, net_id, result>>

\* payload of the create-volume request
CreatePayload ==
    {<<"name", params.name>>, <<"region", params.region>>,
     <<"size_gigabytes", params.size_gigabytes>>, <<"description", params.description>>}
    \cup (IF params.filesystem_label # None
          THEN {<<"filesystem_type", params.filesystem_type>>,
                <<"filesystem_label", params.filesystem_label>>}
          ELSE {})

\* changed flag reported for the status of a create request
CreateChanged(status) == IF status = 201 THEN FALSE ELSE TRUE

\* if module.params['state'] == 'present': resize / attach / create
V_Present ==
    /\ prog = "volume" /\ pc = "v_act" /\ params.state = Str("present")
    /\ IF Truthy(params.resize_gigabytes)
       THEN \E status \in ActionStatuses :
              /\ Send("POST", <<"volumes", Format(vid), "action">>,
                      {<<"type", Str("resize")>>, <<"size", params.resize_gigabytes>>})
              /\ response' = status
              /\ IF status = 202 THEN Exits(TRUE) ELSE Fails
       ELSE IF Truthy(did)
       THEN \E status \in ActionStatuses :
              /\ Send("POST", <<"volumes", "actions">>,
                      {<<"type", Str("attach")>>, <<"droplet_id", did>>}
                      \cup (IF Truthy(params.name)
                            THEN {<<"volume_name", params.name>>} ELSE {}))
              /\ response' = status
              /\ IF status = 202 THEN Exits(TRUE) ELSE Fails
       ELSE \E status \in CreateStatuses :
              /\ IF params.snapshot # True
                 THEN Send("POST", <<"volumes">>, CreatePayload)
                 ELSE Send("POST", <<"volumes", Format(vid), "snapshots">>,
                           {<<"name", params.name>>})
              /\ response' = status
              /\ IF status = 201 \/ status = 409
                 THEN Exits(CreateChanged(status))
                 ELSE Fails
    /\ UNCHANGED <<extra, prog, params, vid, sid, did, pid, lookup, org_id, net_id, result>>

\* the request that deletes the volume or the snapshot
DeleteUrl == IF params.snapshot = None
             THEN <<"volumes", Format(vid)>>
             ELSE <<"snapshots", Format(sid)>>

\* elif module.params['state'] == 'absent': detach / delete
V_Absent ==
    /\ prog = "volume" /\ pc = "v_act" /\ params.state = Str("absent")
    /\ IF did # None /\ did # False
       THEN \E status \in ActionStatuses :
              /\ Send("POST", <<"volumes", Format(vid), "actions">>,
                      {<<"type", Str("detach")>>, <<"droplet_id", did>>}
                      \cup (IF Truthy(params.region)
                            THEN {<<"region", params.region>>} ELSE {}))
              /\ response' = status
              /\ IF status = 202 THEN Exits(TRUE) ELSE Fails
       ELSE \E status \in DeleteStatuses :
              /\ Send("DELETE", DeleteUrl, {})
              /\ response' = status
              /\ IF status = 204
                 THEN Exits(TRUE)
                 ELSE \* falls through to the last line of core()
                      Exits(FALSE)
    /\ UNCHANGED <<extra, prog, params, vid, sid, did, pid, lookup, org_id, net_id, result>>

(***************************************************************************)
(* digital_ocean_project_facts: core()                                     *)
(***************************************************************************)
\* what rest.query(url) may do: the helper class is not part of these files,
\* so the call either fails with AttributeError or answers with a status
QueryOutcomes == {0, 200, 404}

\* state = module.params['state'] ... rest = DigitalOceanHelper(module)
P_Start ==
    /\ prog = "project" /\ pc = "p_start"
    /\ IF params.state = Missing
       THEN /\ Raises   \* KeyError: 'state'
            /\ UNCHANGED pid
       ELSE /\ pid' = params.id
            /\ pc' = "p_pid"
            /\ UNCHANGED reports
    /\ UNCHANGED <<extra, prog, params, vid, sid, did, requests, response, lookup, org_id, net_id, result>>

\* if pid is None and name is not None: pid = get_pid(name, get_all_projects(rest)['projects'])
P_ResolvePid ==
    /\ prog = "project" /\ pc = "p_pid"
    /\ IF pid = None /\ params.name # None
       THEN \E status \in ListStatuses, projects \in Lists :
              /\ Send("GET", <<"projects">>, {})
              /\ response' = status
              /\ IF status = 200
                 THEN /\ pid' = get_pid(params.name, projects)
                      /\ lookup' = Looked("get_pid", params.name, projects, pid')
                      /\ pc' = "p_require"
                      /\ UNCHANGED reports
                 ELSE \* get_all_projects returned None: None['projects']
                      /\ Raises
                      /\ UNCHANGED <<pid, lookup>>
       ELSE /\ pc' = "p_require"
            /\ UNCHANGED <<pid, lookup, requests, response, reports>>
    /\ UNCHANGED <<extra, prog, params, vid, sid, did, org_id, net_id, result>>

\* if resources is not None: if default is None and pid is None: fail_json
P_Require ==
    /\ prog = "project" /\ pc = "p_require"
    /\ IF params.resources # None /\ params.default = None /\ pid = None
       THEN Fails
       ELSE pc' = "p_query" /\ UNCHANGED reports
    /\ UNCHANGED <<extra, prog, params, vid, sid, did, pid, requests, response, lookup, org_id, net_id, result>>

\* response = rest.query(url); 200 -> exit_json(changed=False), else fail_json
P_RestQuery(url) ==
    \E q \in QueryOutcomes :
      IF q = 0
      THEN Raises /\ UNCHANGED <<requests, response>>
      ELSE /\ Send("GET", url, {})
           /\ response' = q
           /\ IF q = 200 THEN Exits(FALSE) ELSE Fails

\* the query of lines 170-186
P_Query ==
    /\ prog = "project" /\ pc = "p_query"
    /\ IF params.resources = None
       THEN IF pid # None
            THEN \* 'projects/{0}'.pid : str has no attribute pid
                 Raises /\ UNCHANGED <<requests, response>>
            ELSE IF params.default = True
            THEN P_RestQuery(<<"projects", "default">>)
            ELSE \* response = get_all_projects(rest); a dict or None has no status_code
                 \E status \in ListStatuses :
                   /\ Send("GET", <<"projects">>, {})
                   /\ response' = status
                   /\ Raises
       ELSE IF params.default = True
            THEN P_RestQuery(<<"projects", "default", "resources">>)
            ELSE P_RestQuery(<<"", "projects", Format(pid), "resources">>)
    /\ UNCHANGED <<extra, prog, params, vid, sid, did, pid, lookup, org_id, net_id, result>>

(***************************************************************************)
(* meraki_nat: main()                                                      *)
(***************************************************************************)
key_map(k) ==
    CASE k = "name" -> "name"
      [] k = "public_ip" -> "publicIp"
      [] k = "lan_ip" -> "lanIp"
      [] k = "uplink" -> "uplink"
      [] k = "allowed_inbound" -> "allowedInbound"
      [] k = "protocol" -> "protocol"
      [] k = "destination_ports" -> "destinationPorts"
      [] k = "allowed_ips" -> "allowedIps"
      [] k = "port_rules" -> "portRules"
      [] k = "public_port" -> "publicPort"
      [] k = "local_ip" -> "localIp"
      [] k = "local_port" -> "localPort"

\* a list of dicts of scalars: every key is renamed through key_map
construct_payload(rules) ==
    [i \in 1..Len(rules) |-> {<<key_map(kv[1]), kv[2]>> : kv \in rules[i]}]

Payload_unguarded(p) == Given(construct_payload(p.rules))

\* one_to_one_payload etc.: None unless state is present and the rules are given
Payload(p) ==
    IF params.state = Str("present") /\ p.given
    THEN Given(construct_payload(p.rules))
    ELSE NotGiven

\* meraki.url_catalog[kind]['nat'] as main() fills it in
url_catalog(kind) ==
    CASE kind = "1:many" -> "oneToOneNatRules"
      [] kind = "1:1" -> "oneToManyNatRules"
      [] kind = "port_forwarding" -> "portForwardingRules"

construct_path(kind, net) == <<"networks", Format(net), url_catalog(kind)>>

\* rules the provider may hold, as it returns them
ProviderRules == {<<>>, construct_payload(<<TaskRule>>)}

\* statuses of meraki.request; 300 and above make the helper call fail_json
MerakiStatuses == {200, 201, 404}

DictSet_replace(d, k, v) == {<<k, v>>}

\* result['data'][k] = v
DictSet(d, k, v) == {kv \in d : kv[1] # k} \cup {<<k, v>>}

\* what meraki.request returned for the request made for a NAT component
Reply(kind, method, status, body) ==
    [kind |-> kind, method |-> method, status |-> status, body |-> body]

Plain(body) == [nested |-> FALSE, key |-> "", body |-> body]
Nested(k, body) == [nested |-> TRUE, key |-> k, body |-> body]

\* if meraki.params['net_name'] and meraki.params['net_id']: fail_json
N_Exclusive ==
    /\ prog = "nat" /\ pc = "n_exclusive"
    /\ IF Truthy(params.net_name) /\ Truthy(params.net_id)
       THEN /\ reports' = fail_json(reports)
            /\ msg' = "net_name and net_id are mutually exclusive"
            /\ pc' = "done"
       ELSE pc' = "n_org" /\ UNCHANGED <<reports, msg>>
    /\ UNCHANGED <<replies, provider, rvars, tvars, prog, params, vid, sid, did, pid, requests, response, lookup, org_id, net_id, result>>

\* org_id = params['org_id']; if not org_id: org_id = meraki.get_org_id(org_name)
N_Org ==
    /\ prog = "nat" /\ pc = "n_org"
    /\ IF ~Truthy(params.org_id)
       THEN \E status \in MerakiStatuses, found \in BOOLEAN :
              /\ Send("GET", <<"organizations">>, {})
              /\ response' = status
              /\ IF status < 300 /\ found
                 THEN org_id' = Str("O1") /\ pc' = "n_net" /\ UNCHANGED reports
                 ELSE reports' = fail_json(reports) /\ pc' = "done" /\ UNCHANGED org_id
       ELSE /\ org_id' = params.org_id
            /\ pc' = "n_net"
            /\ UNCHANGED <<requests, response, reports>>
    /\ UNCHANGED <<extra, prog, params, vid, sid, did, pid, lookup, net_id, result>>

\* net_id = params['net_id']; if net_id is None: get_nets, get_net_id
N_Net ==
    /\ prog = "nat" /\ pc = "n_net"
    /\ IF params.net_id = None
       THEN \E status \in MerakiStatuses, found \in BOOLEAN :
              /\ Send("GET", <<"organizations", Format(org_id), "networks">>, {})
              /\ response' = status
              /\ IF status = 200 /\ found
                 THEN net_id' = Str("N1") /\ pc' = "n_state" /\ UNCHANGED reports
                 ELSE reports' = fail_json(reports) /\ pc' = "done" /\ UNCHANGED net_id
       ELSE /\ net_id' = params.net_id
            /\ pc' = "n_state"
            /\ UNCHANGED <<requests, response, reports>>
    /\ UNCHANGED <<extra, prog, params, vid, sid, did, pid, lookup, org_id, result>>

\* the three GETs of subset 'all'; st and body are the provider's answers
RECURSIVE QueryAll(_, _, _, _, _)
QueryAll(kinds, i, st, body, acc) ==
    IF i > Len(kinds) THEN acc
    ELSE LET reqs == Append(acc.requests, Request("GET", construct_path(kinds[i], net_id), {}))
             reps == Append(acc.replies, Reply(kinds[i], "GET", st[i], body[i]))
         IN IF st[i] >= 300
            THEN [acc EXCEPT !.requests = reqs, !.replies = reps, !.status = st[i], !.end = "fail"]
            ELSE QueryAll(kinds, i + 1, st, body,
                          [acc EXCEPT !.requests = reqs, !.replies = reps, !.status = st[i],
                                      !.data = DictSet(acc.data, kinds[i], Plain(body[i]))])

\* for subset in params['subset']: ... try: result['data'][subset] = data
\*                                     except KeyError: result['data'] = {subset: data}
RECURSIVE QuerySubsets(_, _, _, _, _)
QuerySubsets(subsets, i, st, body, acc) ==
    IF i > Len(subsets) THEN acc
    ELSE IF subsets[i] = "all"
    THEN [acc EXCEPT !.end = "crash"]  \* url_catalog has no entry 'all'
    ELSE LET reqs == Append(acc.requests, Request("GET", construct_path(subsets[i], net_id), {}))
             reps == Append(acc.replies, Reply(subsets[i], "GET", st[i], body[i]))
             data == Nested(subsets[i], body[i])
         IN IF st[i] >= 300
            THEN [acc EXCEPT !.requests = reqs, !.replies = reps, !.status = st[i], !.end = "fail"]
            ELSE QuerySubsets(subsets, i + 1, st, body,
                   [acc EXCEPT !.requests = reqs, !.replies = reps, !.status = st[i],
                       !.hasData = TRUE,
                       !.data = IF acc.hasData
                                THEN DictSet(acc.data, subsets[i], data)
                                ELSE {<<subsets[i], data>>}])

QueryStart == [requests |-> requests, replies |-> replies, status |-> response, end |-> "ok",
               hasData |-> result.hasData, data |-> result.data]

\* what the provider holds at the endpoint the request for a subset goes to
Stored(kind) == IF kind = "all" THEN <<>> ELSE provider[url_catalog(kind)]

\* if meraki.params['state'] == 'query'
N_Query ==
    /\ prog = "nat" /\ pc = "n_state" /\ params.state = Str("query")
    /\ \E st \in [1..3 -> MerakiStatuses] :
         LET kinds == <<"1:many", "1:1", "port_forwarding">>
             all == QueryAll(kinds, 1, st, [i \in 1..3 |-> Stored(kinds[i])],
                             [QueryStart EXCEPT !.data = {}])
             out == IF params.subset[1] = "all"
                    THEN [all EXCEPT !.hasData = (all.end = "ok")]
                    ELSE QuerySubsets(params.subset, 1, st,
                                      [i \in 1..Len(params.subset) |-> Stored(params.subset[i])],
                                      QueryStart)
         IN /\ requests' = out.requests
            /\ replies' = out.replies
            /\ response' = out.status
            /\ IF out.end = "ok"
               THEN /\ result' = [result EXCEPT !.hasData = out.hasData, !.data = out.data]
                    /\ pc' = "n_exit"
                    /\ UNCHANGED reports
               ELSE IF out.end = "fail"
               THEN reports' = fail_json(reports) /\ pc' = "done" /\ UNCHANGED result
               ELSE pc' = "crashed" /\ UNCHANGED <<reports, result>>
    /\ UNCHANGED <<msg, provider, rvars, tvars, prog, params, vid, sid, did, pid, lookup, org_id, net_id>>

\* elif meraki.params['state'] == 'present'
N_PresentStart ==
    /\ prog = "nat" /\ pc = "n_state" /\ params.state = Str("present")
    /\ pc' = "n_one_to_one"
    /\ UNCHANGED <<extra, prog, params, vid, sid, did, pid, requests, response, reports, lookup,
                   org_id, net_id, result>>

\* compares the provider's rules with the rules of the payload
is_update_required(current, payload) == current # payload.rules

\* what the provider holds after a PUT: the rules the request carries, and
\* what it held before when the request carries none
StoreRules(prov, endpoint, data) ==
    IF data = {} THEN prov
    ELSE [prov EXCEPT ![endpoint] = (CHOOSE kv \in data : kv[1] = "rules")[2]]

\* the body of the PUT: meraki.request(path, method='PUT') passes no payload
PutData(payload) == {}

\* if <kind>_payload is not None: GET; if update required: PUT; 200 -> result
N_Update(at, kind, payload, key, next) ==
    /\ prog = "nat" /\ pc = at
    /\ IF payload.given
       THEN \E getst \in MerakiStatuses, putst \in MerakiStatuses :
              LET path == construct_path(kind, net_id)
                  get == Request("GET", path, {})
                  put == Request("PUT", path, PutData(payload))
                  current == provider[path[3]]
                  after == StoreRules(provider, path[3], put.data)
                  r == after[path[3]]
                  got == Append(replies, Reply(kind, "GET", getst, current))
              IN IF getst >= 300
                 THEN /\ requests' = Append(requests, get)
                      /\ replies' = got
                      /\ response' = getst
                      /\ reports' = fail_json(reports) /\ pc' = "done"
                      /\ UNCHANGED <<result, provider>>
                 ELSE IF ~is_update_required(current, payload)
                 THEN /\ requests' = Append(requests, get)
                      /\ replies' = got
                      /\ response' = getst
                      /\ pc' = next
                      /\ UNCHANGED <<reports, result, provider>>
                 ELSE /\ requests' = Append(Append(requests, get), put)
                      /\ replies' = Append(got, Reply(kind, "PUT", putst, r))
                      /\ response' = putst
                      /\ IF putst >= 300
                         THEN /\ reports' = fail_json(reports) /\ pc' = "done"
                              /\ UNCHANGED <<result, provider>>
                         ELSE /\ pc' = next
                              /\ provider' = after
                              /\ UNCHANGED reports
                              /\ IF putst = 200
                                 THEN result' = [changed |-> TRUE, hasData |-> TRUE,
                                                 data |-> {<<key, Plain(r)>>}]
                                 ELSE UNCHANGED result
       ELSE /\ pc' = next
            /\ UNCHANGED <<requests, replies, response, reports, result, provider>>
    /\ UNCHANGED <<msg, rvars, tvars, prog, params, vid, sid, did, pid, lookup, org_id, net_id>>

N_OneToOne ==
    N_Update("n_one_to_one", "1:1", Payload(params.one_to_one), "one_to_one", "n_one_to_many")

N_OneToMany ==
    N_Update("n_one_to_many", "1:many", Payload(params.one_to_many), "one_to_many", "n_port_forwarding")

N_PortForwarding ==
    N_Update("n_port_forwarding", "port_forwarding", Payload(params.port_forwarding),
             "port_forwarding", "n_exit")

\* meraki.exit_json(**meraki.result)
N_Exit ==
    /\ prog = "nat" /\ pc = "n_exit"
    /\ reports' = exit_json(reports, result.changed)
    /\ pc' = "done"
    /\ UNCHANGED <<extra, prog, params, vid, sid, did, pid, requests, response, lookup, org_id, net_id, result>>

(***************************************************************************)
(* meraki_wireless_health_facts: main()                                    *)
(***************************************************************************)
WirelessParams ==
    [net_name : {None, Str("net")},
     net_id : {None, Str("N1")},
     org_name : {None, Str("org")},
     org_id : {None, Str("O1")},
     type : {None, Str("connectivity"), Str("latency")},
     group_by : {None, Str("client"), Str("node")},
     start : {PyInt(1)},
     end : {PyInt(2)},
     ssid : {None, Str("guest")},
     vlan : {None},
     fields : {<<>>, <<"rssi", "snr">>}]

\* for i, item in enumerate(data): i never equals len(data)
RECURSIVE list_to_csv_from(_, _, _)
list_to_csv_from(data, i, items) ==
    IF i >= Len(data) THEN items
    ELSE IF i = Len(data)
         THEN list_to_csv_from(data, i + 1, items \o <<data[i + 1]>>)
         ELSE list_to_csv_from(data, i + 1, items \o <<data[i + 1], ",">>)

list_to_csv(data) == list_to_csv_from(data, 0, <<>>)

\* meraki.url_catalog[action]['wireless_health_facts'] as main() fills it in
w_url_catalog(action) ==
    CASE action = "connectivity_net" -> <<"connectionStats">>
      [] action = "connectivity_net_group_node" -> <<"devices", "connectionStats">>
      [] action = "connectivity_net_group_client" -> <<"devices", "connectionStats">>

w_construct_path(action, net) == <<"networks", Format(net)>> \o w_url_catalog(action)

\* payload = dict(); payload['t0'] = ...
WirelessPayload ==
    {<<"t0", <<Format(params.start)>> >>, <<"t1", <<Format(params.end)>> >>}
    \cup (IF Truthy(params.ssid) THEN {<<"ssid", <<Format(params.ssid)>> >>} ELSE {})
    \cup (IF Truthy(params.vlan) THEN {<<"vlan", <<Format(params.vlan)>> >>} ELSE {})
    \cup (IF params.fields # <<>> THEN {<<"fields", list_to_csv(params.fields)>>} ELSE {})

StatsBodies == {<<>>, <<{<<"assoc", "1">>}>>}

\* the parameter validation of lines 149-154
W_Validate ==
    /\ prog = "wireless" /\ pc = "w_validate"
    /\ IF (~Truthy(params.net_name) \/ Truthy(params.net_id))
          /\ ~Truthy(params.org_name) /\ ~Truthy(params.org_id)
       THEN /\ reports' = fail_json(reports)
            /\ msg' = "org_name or org_id parameters are required"
            /\ pc' = "done"
       ELSE IF Truthy(params.net_name) /\ Truthy(params.net_id)
       THEN /\ reports' = fail_json(reports)
            /\ msg' = "net_name and net_id are mutually exclusive"
            /\ pc' = "done"
       ELSE pc' = "w_org" /\ UNCHANGED <<reports, msg>>
    /\ UNCHANGED <<replies, provider, rvars, tvars, prog, params, vid, sid, did, pid,
                   requests, response, lookup, org_id, net_id, result>>

\* org_id = params['org_id']; if not org_id and params['org_name']: get_org_id
W_Org ==
    /\ prog = "wireless" /\ pc = "w_org"
    /\ IF ~Truthy(params.org_id) /\ Truthy(params.org_name)
       THEN \E status \in MerakiStatuses, found \in BOOLEAN :
              /\ Send("GET", <<"organizations">>, {})
              /\ response' = status
              /\ IF status < 300 /\ found
                 THEN org_id' = Str("O1") /\ pc' = "w_net" /\ UNCHANGED reports
                 ELSE reports' = fail_json(reports) /\ pc' = "done" /\ UNCHANGED org_id
       ELSE /\ org_id' = params.org_id
            /\ pc' = "w_net"
            /\ UNCHANGED <<requests, response, reports>>
    /\ UNCHANGED <<extra, prog, params, vid, sid, did, pid, lookup, net_id, result>>

\* net_id = params['net_id']; if params['net_id'] is None: get_nets, get_net_id
W_Net ==
    /\ prog = "wireless" /\ pc = "w_net"
    /\ IF params.net_id = None
       THEN \E status \in MerakiStatuses, found \in BOOLEAN :
              /\ Send("GET", <<"organizations", Format(org_id), "networks">>, {})
              /\ response' = status
              /\ IF status = 200 /\ found
                 THEN net_id' = Str("N1") /\ pc' = "w_stats" /\ UNCHANGED reports
                 ELSE reports' = fail_json(reports) /\ pc' = "done" /\ UNCHANGED net_id
       ELSE /\ net_id' = params.net_id
            /\ pc' = "w_stats"
            /\ UNCHANGED <<requests, response, reports>>
    /\ UNCHANGED <<extra, prog, params, vid, sid, did, pid, lookup, org_id, result>>

\* if params['type'] == 'connectivity': GET the statistics; 200 -> result['data'] = r
W_Stats ==
    /\ prog = "wireless" /\ pc = "w_stats"
    /\ IF params.type = Str("connectivity")
       THEN \E status \in MerakiStatuses, r \in StatsBodies :
              LET action == IF params.group_by = Str("client")
                            THEN "connectivity_net_group_client"
                            ELSE IF params.group_by = Str("node")
                            THEN "connectivity_net_group_node"
                            ELSE "connectivity_net"
                  path == w_construct_path(action, net_id)
                              \o <<"?t0", Format(params.start), "t1", Format(params.end)>>
              IN /\ Send("GET", path, WirelessPayload)
                 /\ response' = status
                 /\ IF status >= 300
                    THEN reports' = fail_json(reports) /\ pc' = "done" /\ UNCHANGED result
                    ELSE /\ pc' = "w_exit"
                         /\ UNCHANGED reports
                         /\ IF status = 200
                            THEN result' = [result EXCEPT !.hasData = TRUE,
                                                          !.data = {<<"", Plain(r)>>}]
                            ELSE UNCHANGED result
       ELSE /\ pc' = "w_exit"
            /\ UNCHANGED <<requests, response, reports, result>>
    /\ UNCHANGED <<extra, prog, params, vid, sid, did, pid, lookup, org_id, net_id>>

\* meraki.exit_json(**meraki.result)
W_Exit ==
    /\ prog = "wireless" /\ pc = "w_exit"
    /\ reports' = exit_json(reports, result.changed)
    /\ pc' = "done"
    /\ UNCHANGED <<extra, prog, params, vid, sid, did, pid, requests, response, lookup,
                   org_id, net_id, result>>

Init ==
    /\ \/ prog = "volume" /\ params \in VolumeParams /\ pc = "v_start"
       \/ prog = "project" /\ params \in ProjectParams /\ pc = "p_start"
       \/ prog = "nat" /\ params \in NatParams /\ pc = "n_exclusive"
       \/ prog = "wireless" /\ params \in WirelessParams /\ pc = "w_validate"
       \/ prog = "template" /\ params = [convert_data |-> True] /\ pc = "t_ready"
    /\ IF prog = "nat"
       THEN provider \in [Endpoints -> ProviderRules]
       ELSE provider = NoProvider
    /\ replies = <<>>
    /\ msg = ""
    /\ run = 1
    /\ updated = {}
    /\ env = DefaultEnv
    /\ calls = 0
    /\ lastCall = NoCall
    /\ vid = None
    /\ sid = None
    /\ did = None
    /\ pid = None
    /\ requests = <<>>
    /\ response = 0
    /\ reports = <<>>
    /\ lookup = NoLookup
    /\ org_id = None
    /\ net_id = None
    /\ result = InitResult

\* the rule kinds whose PUT the provider answered with 200 in this run
UpdatedKinds == {replies[i].kind : i \in {j \in 1..Len(replies) :
                                            replies[j].method = "PUT" /\ replies[j].status = 200}}

\* the same state=present task is run again against the same provider
N_Rerun ==
    /\ prog = "nat" /\ pc = "done" /\ params.state = Str("present")
    /\ run < MaxRuns
    /\ reports # <<>> /\ reports[1].kind = "exit"
    /\ run' = run + 1
    /\ updated' = UpdatedKinds
    /\ pc' = "n_exclusive"
    /\ requests' = <<>>
    /\ replies' = <<>>
    /\ response' = 0
    /\ reports' = <<>>
    /\ result' = InitResult
    /\ org_id' = None
    /\ net_id' = None
    /\ UNCHANGED <<msg, provider, tvars, prog, params, vid, sid, did, pid, lookup>>

Next ==
    \/ V_Start
    \/ V_ResolveVid
    \/ V_ResolveSid
    \/ V_ResolveDid
    \/ V_Present
    \/ V_Absent
    \/ P_Start
    \/ P_ResolvePid
    \/ P_Require
    \/ P_Query
    \/ N_Exclusive
    \/ N_Org
    \/ N_Net
    \/ N_Query
    \/ N_PresentStart
    \/ N_OneToOne
    \/ N_OneToMany
    \/ N_PortForwarding
    \/ N_Exit
    \/ N_Rerun
    \/ W_Validate
    \/ W_Org
    \/ W_Net
    \/ W_Stats
    \/ W_Exit
    \/ T_Run

Spec == Init /\ [][Next]_vars

\* every step of a module run is taken: the process runs to its end
FairSpec == Spec /\ WF_vars(Next)

(***************************************************************************)
(* Properties                                                              *)
(***************************************************************************)
Last(seq) == seq[Len(seq)]

DigitalOcean == prog \in {"volume", "project"}

Mutating(reqs) == {i \in 1..Len(reqs) : reqs[i].method \in {"POST", "PUT", "DELETE"}}

Fail == [kind |-> "fail", changed |-> FALSE]

\* C1: a run of digital_ocean_volume or digital_ocean_project_facts reports
\* exactly one result: never more than one, one when the run has ended, no
\* request or report after the report, and every run ends; an exception
\* inside core() ends in fail_json.
C1_ExactlyOneReport ==
    /\ [](DigitalOcean => /\ Len(reports) <= 1
                          /\ (pc = "done" <=> Len(reports) = 1))
    /\ [][(DigitalOcean /\ Len(reports) = 1) => UNCHANGED <<requests, reports>>]_vars
    /\ (DigitalOcean => <>(pc = "done" /\ Len(reports) = 1))

\* a non-200 volume list made get_all_volumes return None; the TypeError ended in fail_json
C1_Witness ==
    /\ prog = "volume" /\ pc = "done"
    /\ requests = <<Request("GET", <<"volumes">>, {})>>
    /\ response = 404
    /\ reports = <<Fail>>

\* the id of the first element named name, False when there is none
FirstMatch(name, list) ==
    IF \E i \in 1..Len(list) : list[i].name = name
    THEN list[CHOOSE i \in 1..Len(list) :
                 /\ list[i].name = name
                 /\ \A j \in 1..(i - 1) : list[j].name # name].id
    ELSE False

\* C2: get_vid and get_pid return the id of the first list element whose
\* name equals the requested name, and False when no element has that name.
C2_FirstMatchWins ==
    lookup.fn \in {"get_vid", "get_pid"} =>
        lookup.result = FirstMatch(lookup.name, lookup.list)

\* two volumes share the requested name and the first one's id is returned
C2_Witness ==
    /\ lookup.fn = "get_vid"
    /\ Len(lookup.list) = 2
    /\ lookup.list[1].name = lookup.name
    /\ lookup.list[2].name = lookup.name
    /\ lookup.result = lookup.list[1].id
    /\ vid = lookup.list[1].id

\* C3: on a non-empty list get_sid and get_did decide on the first element
\* only: its id when its name is the requested one, False otherwise, and
\* never the id of an element at position 2 or later.
C3_FirstElementOnly ==
    (lookup.fn \in {"get_sid", "get_did"} /\ lookup.list # <<>>) =>
        /\ lookup.result = IF lookup.list[1].name = lookup.name
                           THEN lookup.list[1].id
                           ELSE False
        /\ \A i \in 2..Len(lookup.list) : lookup.result # lookup.list[i].id

\* the second snapshot has the requested name, the first has not: False
C3_Witness ==
    /\ lookup.fn = "get_sid"
    /\ Len(lookup.list) = 2
    /\ lookup.list[1].name # lookup.name
    /\ lookup.list[2].name = lookup.name
    /\ lookup.result = False
    /\ sid = False

\* C4: every resolved identifier is a string or None, and no other value is
\* interpolated into a request URL.
C4_IdIsStringOrNone ==
    /\ \A x \in {vid, sid, did, pid} : x.t \in {"str", "none"}
    /\ \A i \in 1..Len(requests) :
         \A k \in 1..Len(requests[i].url) : requests[i].url[k] \notin {"False", "True"}

NatPath(kind) == construct_path(kind, net_id)

Puts(kind) == {i \in 1..Len(requests) :
                 requests[i].method = "PUT" /\ requests[i].url = NatPath(kind)}

SuppliedKinds == {k \in {"one_to_one", "one_to_many", "port_forwarding"} : params[k].given}

\* C5 as claimed: a run of digital_ocean_volume or meraki_nat issues at most
\* one mutating request (POST, PUT or DELETE).
C5_AtMostOneMutation ==
    prog \in {"volume", "nat"} => Cardinality(Mutating(requests)) <= 1

\* C5 as amended: a run of digital_ocean_volume issues at most one mutating
\* request; a run of meraki_nat issues no POST or DELETE, no PUT unless the
\* state is present, at most one PUT per rule kind, and no more PUTs than
\* rule kinds supplied in the task.
C5_OneMutationPerRuleKind ==
    /\ prog = "volume" => Cardinality(Mutating(requests)) <= 1
    /\ prog = "nat" =>
         /\ \A i \in Mutating(requests) : requests[i].method = "PUT"
         /\ Mutating(requests) # {} => params.state = Str("present")
         /\ \A kind \in {"1:1", "1:many", "port_forwarding"} : Cardinality(Puts(kind)) <= 1
         /\ Cardinality(Mutating(requests)) <= Cardinality(SuppliedKinds)

\* a meraki_nat run that was given two rule kinds, updated both and reported
C5_Witness ==
    /\ prog = "nat" /\ pc = "done"
    /\ Cardinality(SuppliedKinds) = 2
    /\ Cardinality(Mutating(requests)) = 2
    /\ reports = <<[kind |-> "exit", changed |-> TRUE]>>

\* the run has ended with the create request of state=present
CreateRequested ==
    /\ prog = "volume" /\ pc = "done" /\ params.state = Str("present")
    /\ Len(reports) = 1 /\ Len(requests) > 0
    /\ Last(requests).method = "POST"
    /\ \/ Last(requests).url = <<"volumes">>
       \/ Len(Last(requests).url) = 3 /\ Last(requests).url[3] = "snapshots"

\* C6: after the create request the run reports changed=True exactly when the
\* status is 201, changed=False without failure when it is 409, and failure
\* for every other status.
C6_CreateStatusMapping ==
    CreateRequested =>
        /\ response = 201 => reports[1] = [kind |-> "exit", changed |-> TRUE]
        /\ response = 409 => reports[1] = [kind |-> "exit", changed |-> FALSE]
        /\ response \notin {201, 409} => reports[1].kind = "fail"

PlainPresent ==
    /\ prog = "volume" /\ params.state = Str("present")
    /\ ~Truthy(params.resize_gigabytes)
    /\ params.droplet_id = None /\ params.droplet_name = None
    /\ params.snapshot = None

CreatePosts == {i \in 1..Len(requests) :
                  requests[i].method = "POST" /\ requests[i].url = <<"volumes">>}

\* C7: state=present without resize, droplet or snapshot: when the name
\* resolved to an existing volume no create POST to 'volumes' is issued.
C7_NoCreateWhenVolumeExists ==
    (PlainPresent /\ lookup.fn = "get_vid" /\ IsStr(lookup.result)) => CreatePosts = {}

DropletGiven == params.droplet_id # None \/ params.droplet_name # None

\* the run has ended with the request of the present / absent branch
VolumeActed ==
    /\ prog = "volume" /\ pc = "done" /\ Len(requests) > 0
    /\ Last(requests).method \in {"POST", "DELETE"}

IsAction(req, type) == req.method = "POST" /\ <<"type", Str(type)>> \in req.data

\* C8: state=absent with droplet information: the run issues a detach action
\* and never a DELETE, whatever the droplet list contains.
C8_AbsentWithDropletDetaches ==
    (prog = "volume" /\ params.state = Str("absent") /\ DropletGiven) =>
        /\ \A i \in 1..Len(requests) : requests[i].method # "DELETE"
        /\ VolumeActed => IsAction(Last(requests), "detach")

\* C9: state=present with droplet information: the run issues an attach
\* action and neither a volume-create nor a resize request.
C9_PresentWithDropletAttaches ==
    (prog = "volume" /\ params.state = Str("present") /\ DropletGiven) =>
        /\ CreatePosts = {}
        /\ \A i \in 1..Len(requests) : ~IsAction(requests[i], "resize")
        /\ VolumeActed => IsAction(Last(requests), "attach")

\* C10: state=absent without droplet information: the DELETE targets
\* 'snapshots/{sid}' when snapshot is true and 'volumes/{vid}' when snapshot
\* is unset or false.
C10_DeleteTargetsSnapshotOnlyIfTrue ==
    (prog = "volume" /\ params.state = Str("absent") /\ ~DropletGiven
       /\ Len(requests) > 0 /\ Last(requests).method = "DELETE") =>
        Last(requests).url = IF params.snapshot = True
                             THEN <<"snapshots", Format(sid)>>
                             ELSE <<"volumes", Format(vid)>>

\* the endpoint documented for a NAT component
Endpoint(kind) ==
    CASE kind \in {"1:1", "one_to_one"} -> "oneToOneNatRules"
      [] kind \in {"1:many", "one_to_many"} -> "oneToManyNatRules"
      [] kind \in {"port_forwarding"} -> "portForwardingRules"

\* the NAT components the task is about
TaskKinds ==
    IF params.state = Str("query")
    THEN IF params.subset[1] = "all"
         THEN {"1:1", "1:many", "port_forwarding"}
         ELSE {params.subset[i] : i \in 1..Len(params.subset)} \ {"all"}
    ELSE SuppliedKinds

\* C11: every request of meraki_nat for a NAT component goes to that
\* component's own endpoint: '1:1' to oneToOneNatRules, '1:many' to
\* oneToManyNatRules, 'port_forwarding' to portForwardingRules.
C11_OwnEndpoint ==
    prog = "nat" =>
        \A i \in 1..Len(requests) :
            requests[i].url[1] = "networks" =>
                /\ requests[i].url[2] = Format(net_id)
                /\ requests[i].url[3] \in {Endpoint(k) : k \in TaskKinds}

\* C18: state=absent without droplet information: the run reports
\* changed=True exactly when the DELETE status is 204 and fail_json for every
\* other status.
C18_DeleteStatusMapping ==
    (prog = "volume" /\ pc = "done" /\ params.state = Str("absent")
       /\ Len(reports) = 1 /\ Len(requests) > 0 /\ Last(requests).method = "DELETE") =>
        /\ response = 204 => reports[1] = [kind |-> "exit", changed |-> TRUE]
        /\ response # 204 => reports[1].kind = "fail"

\* the run has ended with exit_json
Exited == pc = "done" /\ Len(reports) = 1 /\ reports[1].kind = "exit"

QueriedAll == prog = "nat" /\ params.state = Str("query") /\ params.subset[1] = "all" /\ Exited

\* the entry data[kind] is the body the provider returned for kind's request
HoldsReply(kind) ==
    \E i \in 1..Len(replies) :
        /\ replies[i].kind = kind
        /\ <<kind, Plain(replies[i].body)>> \in result.data

\* C12 as claimed: after a query with subset 'all' the reported data lacks
\* the response of at least one of the '1:many' and '1:1' queries.
C12_QueryAllDrops ==
    QueriedAll => \E kind \in {"1:many", "1:1"} : ~HoldsReply(kind)

\* C12 as amended: after a query with subset 'all' the reported data has
\* exactly the three entries '1:many', '1:1' and 'port_forwarding', each the
\* body returned for the request made for that key; nothing is dropped.
C12_QueryAllKeepsAll ==
    QueriedAll =>
        /\ Len(replies) = 3
        /\ result.hasData
        /\ \A kind \in {"1:many", "1:1", "port_forwarding"} : HoldsReply(kind)
        /\ {kv[1] : kv \in result.data} = {"1:many", "1:1", "port_forwarding"}
        /\ Cardinality(result.data) = 3

\* a query of everything where the provider holds 1:1 rules and no 1:many rules
C12_Witness ==
    /\ QueriedAll
    /\ provider["oneToOneNatRules"] # provider["oneToManyNatRules"]
    /\ HoldsReply("1:1") /\ HoldsReply("1:many")

\* the key of the returned data for a rule kind
ResultKey(kind) ==
    CASE kind = "1:1" -> "one_to_one"
      [] kind = "1:many" -> "one_to_many"
      [] kind = "port_forwarding" -> "port_forwarding"

\* C13: after a state=present run in which several rule kinds were supplied
\* and each was updated with status 200, the reported data has an entry for
\* each of them.
C13_DataForEveryKind ==
    (prog = "nat" /\ params.state = Str("present") /\ Exited
       /\ Cardinality(SuppliedKinds) >= 2
       /\ {ResultKey(k) : k \in UpdatedKinds} = SuppliedKinds) =>
        \A key \in SuppliedKinds : \E kv \in result.data : kv[1] = key

\* C17: a PUT answered with 200 leaves the provider with the desired rules
\* of that kind, so the next run of the same task issues no PUT for it and,
\* when every supplied kind was updated, reports changed=False.
C17_PresentConverges ==
    prog = "nat" =>
        /\ \A i \in 1..Len(replies) :
             (replies[i].method = "PUT" /\ replies[i].status = 200) =>
                 provider[url_catalog(replies[i].kind)]
                     = Payload(params[ResultKey(replies[i].kind)]).rules
        /\ run > 1 =>
             /\ \A i \in 1..Len(replies) :
                  replies[i].kind \in updated => replies[i].method # "PUT"
             /\ (Exited /\ {ResultKey(k) : k \in updated} = SuppliedKinds) =>
                   ~reports[1].changed

BothNetsGiven ==
    /\ prog \in {"nat", "wireless"}
    /\ Truthy(params.net_name) /\ Truthy(params.net_id)

\* C14: when net_name and net_id are both supplied, meraki_nat and
\* meraki_wireless_health_facts fail with 'net_name and net_id are mutually
\* exclusive' and no HTTP request has been issued before the failure.
C14_NetsMutuallyExclusive ==
    BothNetsGiven =>
        /\ requests = <<>>
        /\ pc \in {"n_exclusive", "w_validate", "done"}
        /\ pc = "done" =>
             /\ reports = <<Fail>>
             /\ msg = "net_name and net_id are mutually exclusive"

\* C15: a lookup that passes no variable_start_string / variable_end_string
\* renders with the default delimiters '{{' and '}}', also after an earlier
\* lookup with custom delimiters on the same templar.
C15_DefaultDelimiters ==
    prog = "template" =>
        \A i \in 1..Len(lastCall.rendered) :
            /\ lastCall.kw_start = None =>
                 lastCall.rendered[i].environment.variable_start_string = "{{"
            /\ lastCall.kw_end = None =>
                 lastCall.rendered[i].environment.variable_end_string = "}}"
            /\ (lastCall.kw_start = None /\ lastCall.kw_end = None) =>
                 lastCall.rendered[i].res = Template(FileData(lastCall.rendered[i].term), DefaultEnv)

MissingTerms == {i \in 1..Len(lastCall.terms) : lastCall.terms[i] \notin ExistingFiles}

FirstMissing == CHOOSE i \in MissingTerms : \A j \in MissingTerms : i <= j

\* C16: if the file of a term is missing, run() raises AnsibleError naming
\* the first such term, returns no result list, and has read and rendered
\* exactly the terms before it.
C16_MissingFileRaises ==
    (prog = "template" /\ MissingTerms # {}) =>
        /\ lastCall.raised
        /\ lastCall.error = lastCall.terms[FirstMissing]
        /\ lastCall.ret = <<>>
        /\ lastCall.read = SubSeq(lastCall.terms, 1, FirstMissing - 1)
        /\ Len(lastCall.rendered) = FirstMissing - 1

\* the first term was rendered, the second is missing: the result is discarded
C16_Witness ==
    /\ prog = "template" /\ calls > 0
    /\ lastCall.terms = <<"a.j2", "missing.j2">>
    /\ lastCall.raised /\ lastCall.error = "missing.j2"
    /\ Len(lastCall.rendered) = 1
    /\ lastCall.ret = <<>>

====
